---------------------------- MODULE Spec2Model ----------------------------
(***************************************************************************)
(* The LC3 virtual CPU of pkg/cpu/cpu.go, driven by main of                *)
(* pkg/opcodes/opcodes.go: one CPU per image, the fetch/dispatch loop, the *)
(* sixteen opcode handlers and the six trap handlers, over a 64K-word      *)
(* memory with the memory-mapped keyboard status register.                 *)
(*                                                                         *)
(* Words are uint16: every sum is taken modulo 2^16.  The memory array is  *)
(* kept as the function of its nonzero words (a word that is absent is 0), *)
(* so that two memories are equal exactly when the arrays are.             *)
(***************************************************************************)
EXTENDS Integers, Sequences, FiniteSets, TLC

VARIABLES
    args,       \* main: the images loaded by loadArguments
    argi,       \* main: how many of them have been handed to Run
    memory,     \* cpu.memory
    registers,  \* cpu.registers
    op,         \* cpu.op
    instr,      \* cpu.instr
    running,    \* Loop: the local the cancel closure clears
    exec,       \* Loop: the local counting completed iterations
    err,        \* the error Run returned to main ("nil" while there is none)
    at,         \* control: "Step", "loopCont", "puts", "putsp", "main", "exit"
    addr,       \* handlePuts / handlePutsP: the loop variable
    wbuf,       \* handlePutsP: bytes held by its bufio.Writer, not yet flushed
    stdin,      \* bytes the process has not yet read from os.Stdin
    stdout,     \* bytes written to os.Stdout
    echo,       \* bytes handleIn wrote to the os.Stdin descriptor
    wrote,      \* history: the general registers the last handler assigned
    arg,        \* a function applied on its own: its name and its arguments
    ret         \* what that function returned (<<>> until it has)

vars == <<args, argi, memory, registers, op, instr, running, exec, err, at,
          addr, wbuf, stdin, stdout, echo, wrote, arg, ret>>

-----------------------------------------------------------------------------
(* Bounds of the model.                                                    *)

\* Iterations of Loop after which a run is no longer followed.
MaxExec == 4
\* Longest input stream on os.Stdin.
MaxInput == 2
\* Most images on the command line.
MaxImages == 2

-----------------------------------------------------------------------------
(* Program constants.                                                      *)

MemoryMax == 65536

RR0 == 0
RR7 == 7
RPC == 8
RCOND == 9
RCOUNT == 10

MRKBSR == \hFE00
MRKBDR == \hFE02

FLPOS == 1
FLZRO == 2
FLNEG == 4

OPBR == 0
OPADD == 1
OPLD == 2
OPST == 3
OPJSR == 4
OPAND == 5
OPLDR == 6
OPSTR == 7
OPRTI == 8
OPNOT == 9
OPLDI == 10
OPSTI == 11
OPJMP == 12
OPRES == 13
OPLEA == 14
OPTRAP == 15

GETC == 32
OUT == 33
PUTS == 34
\* traps.IN (IN is a reserved word of TLA+)
TRAPIN == 35
PUTSP == 36
HALT == 37

\* The first PC of a run (NewCPU).
StartPC == \h3000

Word == 0 .. (MemoryMax - 1)

-----------------------------------------------------------------------------
(* uint16 arithmetic.                                                      *)

RECURSIVE Pow2(_)
Pow2(n) == IF n = 0 THEN 1 ELSE 2 * Pow2(n - 1)

\* x + y on uint16
Add16(x, y) == (x + y) % MemoryMax

\* x >> n on uint16
Shr(x, n) == x \div Pow2(n)

\* x << n on uint16
Shl16(x, n) == (x * Pow2(n)) % MemoryMax

RECURSIVE AndBits(_, _, _)
AndBits(x, y, n) ==
    IF n = 0 THEN 0
    ELSE (x % 2) * (y % 2) + 2 * AndBits(x \div 2, y \div 2, n - 1)

\* x & y on uint16
And16(x, y) == AndBits(x, y, 16)

RECURSIVE OrBits(_, _, _)
OrBits(x, y, n) ==
    IF n = 0 THEN 0
    ELSE (IF x % 2 = 1 \/ y % 2 = 1 THEN 1 ELSE 0)
         + 2 * OrBits(x \div 2, y \div 2, n - 1)

\* x | y on uint16
Or16(x, y) == OrBits(x, y, 16)

\* ^x on uint16
Not16(x) == (MemoryMax - 1) - x

\* signExtend gone wrong: the bit tested is bit bitCount, one too high.
signExtend_OffByOne(x, bitCount) ==
    IF And16(Shr(x, bitCount), 1) # 0
    THEN Or16(x, Shl16(\hFFFF, bitCount))
    ELSE x

\* signExtend: if bit bitCount-1 of x is set, or in 0xFFFF << bitCount.
signExtend(x, bitCount) ==
    IF And16(Shr(x, bitCount - 1), 1) # 0
    THEN Or16(x, Shl16(\hFFFF, bitCount))
    ELSE x

-----------------------------------------------------------------------------
(* Memory and the streams.                                                 *)

\* c.memory[a]
Load(mem, a) == IF a \in DOMAIN mem THEN mem[a] ELSE 0

\* memoryWrite: c.memory[address] = val
memoryWrite(mem, address, val) ==
    LET dom == IF val = 0 THEN DOMAIN mem \ {address}
               ELSE DOMAIN mem \cup {address}
    IN  [a \in dom |-> IF a = address THEN val ELSE mem[a]]

\* ReadByte with exhausted input read as a zero byte and no error.
ReadByte_ZeroOnEOF(in) ==
    IF in = <<>>
    THEN {[err |-> "nil", key |-> 0, in |-> in]}
    ELSE {[err |-> "nil", key |-> in[1], in |-> SubSeq(in, n + 1, Len(in))] :
             n \in 1 .. Len(in)}

\* bufio.NewReader(os.Stdin).ReadByte(): the new reader fills its buffer with
\* one read of os.Stdin, which hands over the n >= 1 bytes the stream has ready,
\* and returns the first; the reader is then dropped with the bytes it still
\* holds.  An exhausted stream gives io.EOF.
ReadByte(in) ==
    IF in = <<>>
    THEN {[err |-> "EOF", key |-> 0, in |-> in]}
    ELSE {[err |-> "nil", key |-> in[1], in |-> SubSeq(in, n + 1, Len(in))] :
             n \in 1 .. Len(in)}

\* memoryRead: the outcomes of reading address from mem with in left on os.Stdin.
memoryRead(mem, in, address) ==
    IF address = MRKBSR
    THEN {IF k.err # "nil"
          THEN [err |-> k.err, val |-> 0, mem |-> mem, in |-> k.in]
          ELSE LET m == IF k.key # 0
                        THEN memoryWrite(memoryWrite(mem, MRKBSR, Shl16(1, 15)),
                                         MRKBDR, k.key)
                        ELSE memoryWrite(mem, MRKBSR, 0)
               IN  [err |-> "nil", val |-> Load(m, address), mem |-> m, in |-> k.in] :
             k \in ReadByte(in)}
    ELSE {[err |-> "nil", val |-> Load(mem, address), mem |-> mem, in |-> in]}

\* byte(x): the low 8 bits
Byte(x) == x % 256

\* fmt.Printf("%c", char) for a uint16 char: the UTF-8 encoding of the rune
\* (U+FFFD for a surrogate).
Printf_c(char) ==
    IF char < 128 THEN <<char>>
    ELSE IF char < 2048 THEN <<192 + Shr(char, 6), 128 + (char % 64)>>
    ELSE IF char >= 55296 /\ char <= 57343 THEN <<239, 191, 189>>
    ELSE <<224 + Shr(char, 12), 128 + (Shr(char, 6) % 64), 128 + (char % 64)>>

-----------------------------------------------------------------------------
(* The register file.                                                      *)

\* updateFlags gone wrong: the new flag is or-ed into COND.
updateFlags_Accumulate(regs, r) ==
    LET flag == IF regs[r] = 0 THEN FLZRO
                ELSE IF Shr(regs[r], 15) # 0 THEN FLNEG ELSE FLPOS
    IN  [regs EXCEPT ![RCOND] = Or16(regs[RCOND], flag)]

\* updateFlags gone wrong: the sign is looked for one bit too high.
updateFlags_Bit16(regs, r) ==
    IF regs[r] = 0 THEN [regs EXCEPT ![RCOND] = FLZRO]
    ELSE IF Shr(regs[r], 16) # 0 THEN [regs EXCEPT ![RCOND] = FLNEG]
    ELSE [regs EXCEPT ![RCOND] = FLPOS]

\* updateFlags: COND from the value now in register r.
updateFlags(regs, r) ==
    IF regs[r] = 0 THEN [regs EXCEPT ![RCOND] = FLZRO]
    ELSE IF Shr(regs[r], 15) # 0 THEN [regs EXCEPT ![RCOND] = FLNEG]
    ELSE [regs EXCEPT ![RCOND] = FLPOS]

\* NewCPU: all registers zero but COND = FLZRO and PC = 0x3000.
NewCPU ==
    [[r \in 0 .. (RCOUNT - 1) |-> 0] EXCEPT ![RCOND] = FLZRO, ![RPC] = StartPC]

\* incrProgramCounter
incrProgramCounter(regs) == [regs EXCEPT ![RPC] = Add16(regs[RPC], 1)]

-----------------------------------------------------------------------------
(* The dispatch tables.                                                    *)

\* opTable gone wrong: the reserved opcode has no entry.
opTable_NoReserved ==
    (OPADD :> "handleAdd") @@ (OPBR :> "handleBr") @@ (OPLD :> "handleLoad")
    @@ (OPST :> "handleStore") @@ (OPJSR :> "handleJumpSubroutine")
    @@ (OPAND :> "handleAnd") @@ (OPLDR :> "handleLoadR")
    @@ (OPSTR :> "handleStr") @@ (OPRTI :> "unhandledOpcode")
    @@ (OPNOT :> "handleNot") @@ (OPLDI :> "handleLoadIndirect")
    @@ (OPSTI :> "handleStoreIndirect") @@ (OPJMP :> "handleJmp")
    @@ (OPLEA :> "handleLoadEffectiveAddress") @@ (OPTRAP :> "handleTrap")

opTable ==
    (OPADD :> "handleAdd") @@ (OPBR :> "handleBr") @@ (OPLD :> "handleLoad")
    @@ (OPST :> "handleStore") @@ (OPJSR :> "handleJumpSubroutine")
    @@ (OPAND :> "handleAnd") @@ (OPLDR :> "handleLoadR")
    @@ (OPSTR :> "handleStr") @@ (OPRTI :> "unhandledOpcode")
    @@ (OPNOT :> "handleNot") @@ (OPLDI :> "handleLoadIndirect")
    @@ (OPSTI :> "handleStoreIndirect") @@ (OPJMP :> "handleJmp")
    @@ (OPRES :> "unhandledOpcode")
    @@ (OPLEA :> "handleLoadEffectiveAddress") @@ (OPTRAP :> "handleTrap")

trapTable ==
    (GETC :> "handleGetC") @@ (OUT :> "handleOut") @@ (PUTS :> "handlePuts")
    @@ (TRAPIN :> "handleIn") @@ (PUTSP :> "handlePutsP") @@ (HALT :> "handleHalt")

\* Run's lookup fn, ok := opTable[op]
Handler(o) == IF o \in DOMAIN opTable THEN opTable[o] ELSE "!ok"

\* TrapHandler gone wrong: the vector is taken from the low 7 bits.
TrapHandler_Mask7(i) ==
    LET trap == And16(i, 127)
    IN  IF trap \in DOMAIN trapTable THEN trapTable[trap] ELSE "!ok"

\* handleTrap's lookup handler, ok := trapTable[trap], trap the low 8 bits
TrapHandler(i) ==
    LET trap == And16(i, 255)
    IN  IF trap \in DOMAIN trapTable THEN trapTable[trap] ELSE "!ok"

\* The operand fields the handlers take from cpu.instr.
Bits9(i) == And16(Shr(i, 9), 7)
Bits6(i) == And16(Shr(i, 6), 7)
Bits0(i) == And16(i, 7)
Bit5(i) == And16(Shr(i, 5), 1)
Bit11(i) == And16(Shr(i, 11), 1)
Imm5(i) == signExtend(And16(i, 31), 5)
Off6(i) == signExtend(And16(i, 63), 6)
Off9(i) == signExtend(And16(i, 511), 9)
Off11(i) == signExtend(And16(i, 2047), 11)

-----------------------------------------------------------------------------
(* The memory images and input streams the runs are followed on.           *)

\* The memory array holding words[1], words[2], ... from 0x3000 on, 0 elsewhere.
ImageOf(words) ==
    [a \in {StartPC + i - 1 : i \in {j \in 1 .. Len(words) : words[j] # 0}}
        |-> words[a - StartPC + 1]]

\* Words 0x3003 .. 0x300A of the images below: a pointer to the keyboard
\* status register, a pointer to 0x3006, a negative word, the string
\* <<0x48, 0xE9>> with its terminator, and the packed string <<0x6948>>.
DataWords == <<\hFE00, \h3006, \h8001, \h0048, \h00E9, 0, \h6948, 0>>

\* TRAP x25
HaltWord == \hF025

\* The word at 0x3000: it prepares the registers for the word at 0x3001.
\*   BR (never) | ADD R1,R1,#-1 | ADD R1,R1,#5 | LD R1,#2 (R1 = 0xFE00)
\*   LD R0,#2 (R0 = 0xFE00) | LEA R0,#5 (R0 = 0x3006) | LEA R0,#8 (R0 = 0x3009)
\*   LD R7,#4 (R7 = 0x8001)
SetupWords == {\h0000, \h127F, \h1265, \h2202, \h2002, \hE005, \hE008, \h2E04}

\* The word at 0x3001: every opcode and trap vector, in its addressing modes.
TestWords ==
    {\h1042, \h1061, \h127F, \h11F0,              \* ADD
     \h5041, \h5270, \h5020,                      \* AND
     \h907F, \h927F,                              \* NOT
     \h2003, \h2006, \h2004, \h21FE,              \* LD
     \hA002, \hA001, \hA403, \hA1FE,              \* LDI
     \h6040, \h6042, \h6401,                      \* LDR
     \hE1FD, \hE600,                              \* LEA
     \h3201, \h31FF, \h3200,                      \* ST
     \hB202, \hB201,                              \* STI
     \h7201, \h7E7F,                              \* STR
     \h0001, \h0E01, \h0801, \h0401, \h0201, \h0FFE, \h05FE,  \* BR
     \hC040, \hC1C0,                              \* JMP
     \h4801, \h4FFD, \h4040, \h41C0,              \* JSR, JSRR
     \h8000, \h8FFF, \hD000, \hDABC,              \* RTI, reserved
     \hF020, \hF021, \hF022, \hF023, \hF024, \hF025, \hF125,  \* TRAP x20-x25
     \hF099, \hF000, \hF026, \hF0A5}              \* TRAP, no such vector

\* AND R0,R0,#0 ; ADD R0,R0,#5 ; TRAP x25
ScenarioImage == ImageOf(<<\h5020, \h1025, \hF025>>)

\* LD R1,#1 ; JMP R1 ; the word 0xFDFF, and at 0xFDFF STI R1,#0, whose
\* pointer is read at the keyboard status address 0xFE00.
KeyboardStoreImage ==
    ImageOf(<<\h2201, \hC040, \hFDFF>>) @@ (\hFDFF :> \hB200)

Images ==
    {ImageOf(<<s, t, HaltWord>> \o DataWords) : s \in SetupWords, t \in TestWords}
    \cup {ScenarioImage, KeyboardStoreImage}

\* Images run one after the other by one process: the scenario, a run that
\* changes registers and memory and halts after reading input, a run that fails.
RerunImages ==
    {ScenarioImage,
     ImageOf(<<\h127F, \h3202, \hF020, HaltWord>>),
     ImageOf(<<\h127F, \hD000>>)}

RECURSIVE SeqsUpTo(_, _)
SeqsUpTo(S, n) ==
    IF n = 0 THEN {<<>>}
    ELSE LET shorter == SeqsUpTo(S, n - 1)
         IN  shorter \cup {Append(q, x) : q \in shorter, x \in S}

Args ==
    {<<m>> : m \in Images}
    \cup {a \in SeqsUpTo(RerunImages, MaxImages) : Len(a) >= 2}

InBytes == {0, 65}

Inputs == SeqsUpTo(InBytes, MaxInput)

-----------------------------------------------------------------------------
(* main and Loop.                                                          *)

\* main has loaded the images, made the first CPU and called Run, which has
\* copied the image and entered Loop.
Init ==
    /\ args \in Args
    /\ argi = 1
    /\ memory = args[1]
    /\ registers = NewCPU
    /\ op = 0
    /\ instr = 0
    /\ running = TRUE
    /\ exec = 0
    /\ err = "nil"
    /\ at = "Step"
    /\ addr = 0
    /\ wbuf = <<>>
    /\ stdin \in Inputs
    /\ stdout = <<>>
    /\ echo = <<>>
    /\ wrote = {}
    /\ arg = <<>>
    /\ ret = <<>>

\* main running the next image on the CPU of the run before.
main_ReuseCPU ==
    /\ at = "main"
    /\ argi < Len(args)
    /\ argi' = argi + 1
    /\ registers' = [registers EXCEPT ![RPC] = StartPC]
    /\ memory' = args[argi + 1]
    /\ op' = 0
    /\ instr' = 0
    /\ running' = TRUE
    /\ exec' = 0
    /\ at' = "Step"
    /\ addr' = 0
    /\ wbuf' = <<>>
    /\ wrote' = {}
    /\ UNCHANGED <<arg, ret, args, err, stdin, stdout, echo>>

\* main: Run returned nil; the next image gets a new CPU and its own Run.
main ==
    /\ at = "main"
    /\ argi < Len(args)
    /\ argi' = argi + 1
    /\ registers' = NewCPU
    /\ memory' = args[argi + 1]
    /\ op' = 0
    /\ instr' = 0
    /\ running' = TRUE
    /\ exec' = 0
    /\ at' = "Step"
    /\ addr' = 0
    /\ wbuf' = <<>>
    /\ wrote' = {}
    /\ UNCHANGED <<arg, ret, args, err, stdin, stdout, echo>>

\* Loop after loopCont returned e with the running flag at run: an error is
\* returned through Run to main, which exits; otherwise exec++ and the loop
\* condition is tested (a cleared flag returns nil to main).
LoopTail(e, run) ==
    /\ err' = e
    /\ running' = run
    /\ exec' = IF e = "nil" THEN exec + 1 ELSE exec
    /\ at' = IF e # "nil" THEN "exit" ELSE IF run THEN "Step" ELSE "main"

\* Step: fetch the word at PC, increment PC, decode the opcode.
Step ==
    /\ at = "Step"
    /\ exec < MaxExec
    /\ \E o \in memoryRead(memory, stdin, registers[RPC]) :
          /\ stdin' = o.in
          /\ memory' = o.mem
          /\ IF o.err # "nil"
             THEN /\ err' = o.err
                  /\ at' = "exit"
                  /\ UNCHANGED <<registers, op, instr>>
             ELSE /\ registers' = incrProgramCounter(registers)
                  /\ op' = Shr(o.val, 12)
                  /\ instr' = o.val
                  /\ at' = "loopCont"
                  /\ err' = err
    /\ UNCHANGED <<arg, ret, args, argi, running, exec, addr, wbuf, stdout, echo, wrote>>

\* Run's continuation is about to call the handler named h.
Dispatch(h) == at = "loopCont" /\ Handler(op) = h

\* unhandledOpcode, and Run's own error for an opcode with no table entry.
unhandledOpcode ==
    /\ at = "loopCont"
    /\ Handler(op) \in {"unhandledOpcode", "!ok"}
    /\ LoopTail(IF Handler(op) = "!ok" THEN "unrecognized operation"
                ELSE "failed to handle opcode", running)
    /\ wrote' = {}
    /\ UNCHANGED <<arg, ret, args, argi, memory, registers, op, instr, addr, wbuf,
                   stdin, stdout, echo>>

-----------------------------------------------------------------------------
(* The opcode handlers.                                                    *)

\* What a handler leaves alone when it touches only the registers.
RegistersOnly == UNCHANGED <<arg, ret, args, argi, memory, op, instr, addr, wbuf,
                             stdin, stdout, echo>>

\* handleAdd gone wrong: the immediate flag is ignored.
handleAdd_RegisterOnly ==
    /\ Dispatch("handleAdd")
    /\ LET r0 == Bits9(instr)
           sum == Add16(registers[Bits6(instr)], registers[Bits0(instr)])
       IN  /\ registers' = updateFlags([registers EXCEPT ![r0] = sum], r0)
           /\ wrote' = {r0}
    /\ LoopTail("nil", running)
    /\ RegistersOnly

handleAdd ==
    /\ Dispatch("handleAdd")
    /\ LET r0 == Bits9(instr)
           r1 == Bits6(instr)
           sum == IF Bit5(instr) = 1
                  THEN Add16(registers[r1], Imm5(instr))
                  ELSE Add16(registers[r1], registers[Bits0(instr)])
       IN  /\ registers' = updateFlags([registers EXCEPT ![r0] = sum], r0)
           /\ wrote' = {r0}
    /\ LoopTail("nil", running)
    /\ RegistersOnly

handleAnd ==
    /\ Dispatch("handleAnd")
    /\ LET r0 == Bits9(instr)
           r1 == Bits6(instr)
           conj == IF Bit5(instr) = 1
                   THEN And16(registers[r1], Imm5(instr))
                   ELSE And16(registers[r1], registers[Bits0(instr)])
       IN  /\ registers' = updateFlags([registers EXCEPT ![r0] = conj], r0)
           /\ wrote' = {r0}
    /\ LoopTail("nil", running)
    /\ RegistersOnly

\* handleBr gone wrong: the branch is taken when the mask equals COND.
handleBr_Exact ==
    /\ Dispatch("handleBr")
    /\ registers' =
          IF Bits9(instr) = registers[RCOND]
          THEN [registers EXCEPT ![RPC] = Add16(registers[RPC], Off9(instr))]
          ELSE registers
    /\ wrote' = {}
    /\ LoopTail("nil", running)
    /\ RegistersOnly

handleBr ==
    /\ Dispatch("handleBr")
    /\ registers' =
          IF And16(Bits9(instr), registers[RCOND]) # 0
          THEN [registers EXCEPT ![RPC] = Add16(registers[RPC], Off9(instr))]
          ELSE registers
    /\ wrote' = {}
    /\ LoopTail("nil", running)
    /\ RegistersOnly

handleJmp ==
    /\ Dispatch("handleJmp")
    /\ registers' = [registers EXCEPT ![RPC] = registers[Bits6(instr)]]
    /\ wrote' = {}
    /\ LoopTail("nil", running)
    /\ RegistersOnly

\* R7 = PC, as handleJumpSubroutine and handleTrap do first.
Link(regs) == [regs EXCEPT ![RR7] = regs[RPC]]

\* handleJumpSubroutine gone wrong: the flags follow the link register.
handleJumpSubroutine_Flags ==
    /\ Dispatch("handleJumpSubroutine")
    /\ LET linked == Link(registers)
           jumped == IF Bit11(instr) = 0
                     THEN [linked EXCEPT ![RPC] = linked[Bits6(instr)]]
                     ELSE [linked EXCEPT ![RPC] = Add16(linked[RPC], Off11(instr))]
       IN  registers' = updateFlags(jumped, RR7)
    /\ wrote' = {RR7}
    /\ LoopTail("nil", running)
    /\ RegistersOnly

\* handleJumpSubroutine gone wrong: R7 is linked after PC has moved.
handleJumpSubroutine_LinkAfter ==
    /\ Dispatch("handleJumpSubroutine")
    /\ LET jumped == IF Bit11(instr) = 0
                     THEN [registers EXCEPT ![RPC] = registers[Bits6(instr)]]
                     ELSE [registers EXCEPT
                              ![RPC] = Add16(registers[RPC], Off11(instr))]
       IN  registers' = Link(jumped)
    /\ wrote' = {RR7}
    /\ LoopTail("nil", running)
    /\ RegistersOnly

handleJumpSubroutine ==
    /\ Dispatch("handleJumpSubroutine")
    /\ LET linked == Link(registers)
       IN  registers' =
              IF Bit11(instr) = 0
              THEN [linked EXCEPT ![RPC] = linked[Bits6(instr)]]
              ELSE [linked EXCEPT ![RPC] = Add16(linked[RPC], Off11(instr))]
    /\ wrote' = {RR7}
    /\ LoopTail("nil", running)
    /\ RegistersOnly

\* A load handler once its memory reads gave outcome o for register dr.
Loaded(o, dr) ==
    /\ stdin' = o.in
    /\ memory' = o.mem
    /\ IF o.err # "nil"
       THEN /\ UNCHANGED registers
            /\ wrote' = {}
       ELSE /\ registers' = updateFlags([registers EXCEPT ![dr] = o.val], dr)
            /\ wrote' = {dr}
    /\ LoopTail(o.err, running)
    /\ UNCHANGED <<arg, ret, args, argi, op, instr, addr, wbuf, stdout, echo>>

handleLoad ==
    /\ Dispatch("handleLoad")
    /\ \E o \in memoryRead(memory, stdin, Add16(registers[RPC], Off9(instr))) :
          Loaded(o, Bits9(instr))

handleLoadR ==
    /\ Dispatch("handleLoadR")
    /\ \E o \in memoryRead(memory, stdin,
                           Add16(registers[Bits6(instr)], Off6(instr))) :
          Loaded(o, Bits9(instr))

\* handleLoadIndirect gone wrong: the second read is missing.
handleLoadIndirect_Single ==
    /\ Dispatch("handleLoadIndirect")
    /\ \E a \in memoryRead(memory, stdin, Add16(registers[RPC], Off9(instr))) :
          Loaded(a, Bits9(instr))

handleLoadIndirect ==
    /\ Dispatch("handleLoadIndirect")
    /\ \E a \in memoryRead(memory, stdin, Add16(registers[RPC], Off9(instr))) :
          IF a.err # "nil"
          THEN Loaded(a, Bits9(instr))
          ELSE \E o \in memoryRead(a.mem, a.in, a.val) : Loaded(o, Bits9(instr))

handleLoadEffectiveAddress ==
    /\ Dispatch("handleLoadEffectiveAddress")
    /\ LET dr == Bits9(instr)
       IN  /\ registers' =
                 updateFlags([registers EXCEPT
                                 ![dr] = Add16(registers[RPC], Off9(instr))], dr)
           /\ wrote' = {dr}
    /\ LoopTail("nil", running)
    /\ RegistersOnly

handleNot ==
    /\ Dispatch("handleNot")
    /\ LET dr == Bits9(instr)
       IN  /\ registers' =
                 updateFlags([registers EXCEPT
                                 ![dr] = Not16(registers[Bits6(instr)])], dr)
           /\ wrote' = {dr}
    /\ LoopTail("nil", running)
    /\ RegistersOnly

\* What a store handler leaves alone.
StoreOnly == UNCHANGED <<arg, ret, args, argi, registers, op, instr, addr, wbuf,
                         stdout, echo>>

handleStore ==
    /\ Dispatch("handleStore")
    /\ memory' = memoryWrite(memory, Add16(registers[RPC], Off9(instr)),
                             registers[Bits9(instr)])
    /\ wrote' = {}
    /\ LoopTail("nil", running)
    /\ UNCHANGED stdin
    /\ StoreOnly

handleStoreIndirect ==
    /\ Dispatch("handleStoreIndirect")
    /\ \E a \in memoryRead(memory, stdin, Add16(registers[RPC], Off9(instr))) :
          /\ stdin' = a.in
          /\ memory' = IF a.err # "nil" THEN a.mem
                       ELSE memoryWrite(a.mem, a.val, registers[Bits9(instr)])
          /\ LoopTail(a.err, running)
    /\ wrote' = {}
    /\ StoreOnly

\* handleStr gone wrong: the 6-bit offset is not sign-extended.
handleStr_NoSignExtend ==
    /\ Dispatch("handleStr")
    /\ memory' = memoryWrite(memory,
                             Add16(registers[Bits6(instr)], And16(instr, 63)),
                             registers[Bits9(instr)])
    /\ wrote' = {}
    /\ LoopTail("nil", running)
    /\ UNCHANGED stdin
    /\ StoreOnly

handleStr ==
    /\ Dispatch("handleStr")
    /\ memory' = memoryWrite(memory,
                             Add16(registers[Bits6(instr)], Off6(instr)),
                             registers[Bits9(instr)])
    /\ wrote' = {}
    /\ LoopTail("nil", running)
    /\ UNCHANGED stdin
    /\ StoreOnly

-----------------------------------------------------------------------------
(* The trap handlers.  handleTrap sets R7 = PC and calls the handler of    *)
(* the vector; each action below is handleTrap followed by that handler.   *)

\* handleTrap is about to call the trap handler named h.
TrapDispatch(h) == Dispatch("handleTrap") /\ TrapHandler(instr) = h

\* handleTrap with a vector that has no handler.
handleTrap ==
    /\ TrapDispatch("!ok")
    /\ registers' = Link(registers)
    /\ wrote' = {RR7}
    /\ LoopTail("unrecognized trap", running)
    /\ RegistersOnly

\* handleGetC gone wrong: the flags are not updated.
handleGetC_NoFlags ==
    /\ TrapDispatch("handleGetC")
    /\ \E k \in ReadByte(stdin) :
          /\ stdin' = k.in
          /\ IF k.err # "nil"
             THEN /\ registers' = Link(registers)
                  /\ wrote' = {RR7}
             ELSE /\ registers' = [Link(registers) EXCEPT ![RR0] = k.key]
                  /\ wrote' = {RR7, RR0}
          /\ LoopTail(k.err, running)
    /\ UNCHANGED <<arg, ret, args, argi, memory, op, instr, addr, wbuf, stdout, echo>>

handleGetC ==
    /\ TrapDispatch("handleGetC")
    /\ \E k \in ReadByte(stdin) :
          /\ stdin' = k.in
          /\ IF k.err # "nil"
             THEN /\ registers' = Link(registers)
                  /\ wrote' = {RR7}
             ELSE /\ registers' =
                        updateFlags([Link(registers) EXCEPT ![RR0] = k.key], RR0)
                  /\ wrote' = {RR7, RR0}
          /\ LoopTail(k.err, running)
    /\ UNCHANGED <<arg, ret, args, argi, memory, op, instr, addr, wbuf, stdout, echo>>

\* The byte goes through a bufio.Writer that Flush hands to os.Stdout; the
\* write succeeds or fails.
handleOut ==
    /\ TrapDispatch("handleOut")
    /\ registers' = Link(registers)
    /\ wrote' = {RR7}
    /\ \E ok \in BOOLEAN :
          /\ stdout' = IF ok THEN Append(stdout, Byte(registers[RR0])) ELSE stdout
          /\ LoopTail(IF ok THEN "nil" ELSE "write error", running)
    /\ UNCHANGED <<arg, ret, args, argi, memory, op, instr, addr, wbuf, stdin, echo>>

\* "Enter a character: "
Prompt == <<69, 110, 116, 101, 114, 32, 97, 32, 99, 104, 97, 114, 97, 99, 116,
            101, 114, 58, 32>>

\* The prompt is printed with its error dropped; the byte read is buffered
\* for os.Stdin, stored in R0, and the Flush to os.Stdin succeeds or fails.
handleIn ==
    /\ TrapDispatch("handleIn")
    /\ \E shown \in BOOLEAN :
          stdout' = IF shown THEN stdout \o Prompt ELSE stdout
    /\ \E k \in ReadByte(stdin) :
          /\ stdin' = k.in
          /\ IF k.err # "nil"
             THEN /\ registers' = Link(registers)
                  /\ wrote' = {RR7}
                  /\ UNCHANGED echo
                  /\ LoopTail(k.err, running)
             ELSE /\ registers' =
                        updateFlags([Link(registers) EXCEPT ![RR0] = k.key], RR0)
                  /\ wrote' = {RR7, RR0}
                  /\ \E ok \in BOOLEAN :
                        /\ echo' = IF ok THEN Append(echo, k.key) ELSE echo
                        /\ LoopTail(IF ok THEN "nil" ELSE "write error", running)
    /\ UNCHANGED <<arg, ret, args, argi, memory, op, instr, addr, wbuf>>

\* handlePuts up to its loop: addr := R0.
handlePuts ==
    /\ TrapDispatch("handlePuts")
    /\ registers' = Link(registers)
    /\ wrote' = {RR7}
    /\ addr' = registers[RR0]
    /\ at' = "puts"
    /\ UNCHANGED <<arg, ret, args, argi, memory, op, instr, running, exec, err, wbuf,
                   stdin, stdout, echo>>

\* One iteration of handlePuts' loop: read the word, stop at 0, else print it
\* with "%c", the error of the print dropped.
putsLoop ==
    /\ at = "puts"
    /\ \E o \in memoryRead(memory, stdin, addr) :
          /\ stdin' = o.in
          /\ memory' = o.mem
          /\ IF o.err # "nil" \/ o.val = 0
             THEN /\ LoopTail(o.err, running)
                  /\ UNCHANGED <<addr, stdout>>
             ELSE /\ \E ok \in BOOLEAN :
                        stdout' = IF ok THEN stdout \o Printf_c(o.val) ELSE stdout
                  /\ addr' = Add16(addr, 1)
                  /\ UNCHANGED <<at, err, exec, running>>
    /\ UNCHANGED <<arg, ret, args, argi, registers, op, instr, wbuf, echo, wrote>>

\* handlePutsP up to its loop: a new bufio.Writer, addr := R0.
handlePutsP ==
    /\ TrapDispatch("handlePutsP")
    /\ registers' = Link(registers)
    /\ wrote' = {RR7}
    /\ addr' = registers[RR0]
    /\ wbuf' = <<>>
    /\ at' = "putsp"
    /\ UNCHANGED <<arg, ret, args, argi, memory, op, instr, running, exec, err,
                   stdin, stdout, echo>>

\* One iteration of handlePutsP's loop: read the word; on an error return
\* (the writer is dropped with what it holds); at 0 Flush, which writes what
\* is buffered, if anything, and succeeds or fails; else buffer the low byte
\* and, if nonzero, the high byte (the strings here stay below the writer's
\* 4096 bytes, so buffering itself never writes).
putspLoop ==
    /\ at = "putsp"
    /\ \E o \in memoryRead(memory, stdin, addr) :
          /\ stdin' = o.in
          /\ memory' = o.mem
          /\ IF o.err # "nil"
             THEN /\ LoopTail(o.err, running)
                  /\ wbuf' = <<>>
                  /\ UNCHANGED <<addr, stdout>>
             ELSE IF o.val = 0
             THEN /\ \E ok \in BOOLEAN :
                        /\ stdout' = IF ok THEN stdout \o wbuf ELSE stdout
                        /\ LoopTail(IF ok \/ wbuf = <<>> THEN "nil"
                                    ELSE "write error", running)
                  /\ wbuf' = <<>>
                  /\ UNCHANGED addr
             ELSE /\ wbuf' = wbuf \o <<Byte(And16(o.val, 255))>>
                               \o (IF Shr(o.val, 8) # 0
                                   THEN <<Byte(Shr(o.val, 8))>> ELSE <<>>)
                  /\ addr' = Add16(addr, 1)
                  /\ UNCHANGED <<at, err, exec, running, stdout>>
    /\ UNCHANGED <<arg, ret, args, argi, registers, op, instr, echo, wrote>>

\* handleHalt gone wrong: cancel is not called.
handleHalt_NoCancel ==
    /\ TrapDispatch("handleHalt")
    /\ registers' = Link(registers)
    /\ wrote' = {RR7}
    /\ LoopTail("nil", running)
    /\ RegistersOnly

\* handleHalt: cancel() clears Loop's running flag.
handleHalt ==
    /\ TrapDispatch("handleHalt")
    /\ registers' = Link(registers)
    /\ wrote' = {RR7}
    /\ LoopTail("nil", FALSE)
    /\ RegistersOnly

-----------------------------------------------------------------------------

Next ==
    \/ main
    \/ Step
    \/ unhandledOpcode
    \/ handleAdd
    \/ handleAnd
    \/ handleBr
    \/ handleJmp
    \/ handleJumpSubroutine
    \/ handleLoad
    \/ handleLoadR
    \/ handleLoadIndirect
    \/ handleLoadEffectiveAddress
    \/ handleNot
    \/ handleStore
    \/ handleStoreIndirect
    \/ handleStr
    \/ handleTrap
    \/ handleGetC
    \/ handleOut
    \/ handleIn
    \/ handlePuts
    \/ putsLoop
    \/ handlePutsP
    \/ putspLoop
    \/ handleHalt

Spec == Init /\ [][Next]_vars

-----------------------------------------------------------------------------
(* readImage and signExtend applied on their own.                          *)

\* The longest image file tried has a 2-byte header and MaxWords words.
MaxWords == 3

\* The big-endian uint16 binary.Read takes from b at byte offset 2k; with
\* fewer than two bytes left it fails, its error is dropped and val stays 0.
WordAt(b, k) ==
    IF 2 * k + 2 <= Len(b) THEN b[2 * k + 1] * 256 + b[2 * k + 2] ELSE 0

\* readImage of an existing file with the bytes file: the result and the
\* memory, as the function of its nonzero words.  The header is read into two
\* zeroed bytes (an empty file gives io.EOF); byteArr has the size of the
\* whole file and takes what is left of it (nothing left gives io.EOF), so it
\* ends in as many zero bytes as the header had; the loop stores a word at
\* every address from origin while the address is below 0xFFFF, and past the
\* end of byteArr every word it stores is 0.
readImage(file) ==
    IF file = <<>>
    THEN [err |-> "EOF", m |-> <<>>]
    ELSE LET origin == file[1] * 256 + (IF Len(file) >= 2 THEN file[2] ELSE 0)
             rest == SubSeq(file, 3, Len(file))
             byteArr == rest \o [i \in 1 .. Len(file) - Len(rest) |-> 0]
             last == IF origin + Len(byteArr) \div 2 < \hFFFF
                     THEN origin + Len(byteArr) \div 2 ELSE \hFFFF - 1
         IN  IF rest = <<>>
             THEN [err |-> "EOF", m |-> <<>>]
             ELSE [err |-> "nil",
                   m |-> [a \in {i \in origin .. last :
                                    WordAt(byteArr, i - origin) # 0}
                             |-> WordAt(byteArr, a - origin)]]

\* Headers of the files tried: none, one byte, and the origins 0x3000,
\* 0xFFFD, 0xFFFE and 0xFFFF.
Headers == {<<>>, <<\h30>>, <<\h30, 0>>, <<\hFF, \hFD>>, <<\hFF, \hFE>>,
            <<\hFF, \hFF>>}

FileBytes == {0, 1, \hAB}

Files ==
    {h \o b : h \in {x \in Headers : Len(x) = 2},
              b \in SeqsUpTo(FileBytes, 2 * MaxWords)}
    \cup {h \in Headers : Len(h) < 2}

\* The field widths the handlers pass to signExtend.
Widths == {5, 6, 9, 11}

\* The words signExtend's callers are tried on: 0 .. MaxValue, which holds
\* every field of up to 12 bits under zero bits, and 0xFFFF - MaxValue ..
\* 0xFFFF, which holds every such field under one bits.
MaxValue == 4095

Values == (0 .. MaxValue) \cup {MemoryMax - 1 - x : x \in 0 .. MaxValue}

Calls ==
    {[fn |-> "readImage", file |-> f, v |-> 0, n |-> 0] : f \in Files}
    \cup {[fn |-> "signExtend", file |-> <<>>, v |-> v, n |-> n] :
             v \in Values, n \in Widths}

UnitInit ==
    /\ arg \in Calls
    /\ ret = <<>>
    /\ at = "call"
    /\ args = <<>>
    /\ argi = 0
    /\ memory = <<>>
    /\ registers = NewCPU
    /\ op = 0
    /\ instr = 0
    /\ running = FALSE
    /\ exec = 0
    /\ err = "nil"
    /\ addr = 0
    /\ wbuf = <<>>
    /\ stdin = <<>>
    /\ stdout = <<>>
    /\ echo = <<>>
    /\ wrote = {}

Machine == <<args, argi, memory, registers, op, instr, running, exec, err,
             addr, wbuf, stdin, stdout, echo, wrote>>

readImageCall ==
    /\ at = "call"
    /\ arg.fn = "readImage"
    /\ ret' = readImage(arg.file)
    /\ at' = "returned"
    /\ UNCHANGED <<arg, Machine>>

\* A handler's call: the field is cut out of the word with a mask of n ones.
signExtendCall ==
    /\ at = "call"
    /\ arg.fn = "signExtend"
    /\ ret' = [val |-> signExtend(And16(arg.v, Pow2(arg.n) - 1), arg.n)]
    /\ at' = "returned"
    /\ UNCHANGED <<arg, Machine>>

UnitNext ==
    \/ readImageCall
    \/ signExtendCall

UnitSpec == UnitInit /\ [][UnitNext]_vars

-----------------------------------------------------------------------------
(* The properties.  They read the instruction word and the registers in    *)
(* their own terms, not through the handlers' operators.                   *)

\* The opcode and the fields of the instruction the handler is called on.
InstrOp == instr \div 4096
InstrDst == (instr \div 512) % 8
InstrVector == instr % 256

\* The 16-bit two's-complement word of the n-bit field x.
SignedField(x, n) == IF x >= Pow2(n - 1) THEN x + MemoryMax - Pow2(n) ELSE x

\* PC plus the sign-extended low 9 bits of the instruction, modulo 2^16.
PCRelative == (registers[RPC] + SignedField(instr % 512, 9)) % MemoryMax

\* The flag of a word read as a signed number: ZERO, NEGATIVE or POSITIVE.
SignFlag(v) == IF v = 0 THEN 2 ELSE IF v >= 32768 THEN 4 ELSE 1

\* A handler is about to run on the fetched instruction.
Executing == at = "loopCont"

\* The loop of the current run has stopped: cleanly, or with an error.
Halted == ~running /\ err = "nil"
Failed == err # "nil"

\* C1: HALTED and FAILED are terminal.  Executing TRAP HALT ends the run with
\* no error; an error from the fetch or from a handler ends the run with that
\* error; from either no step fetches or executes again or changes a register
\* or a memory word of that run (the one step left is main giving the next
\* image a new CPU, after a clean halt only); every other successful step
\* leaves the loop running.
C1_TerminalStates ==
    [][/\ ((Executing /\ InstrOp = 15 /\ InstrVector = 37)
              => (Halted' /\ at' = "main"))
       /\ (Failed' => at' = "exit")
       /\ (Failed => UNCHANGED vars)
       /\ (Halted => (argi' = argi + 1 /\ registers' = NewCPU
                      /\ memory' = args[argi'] /\ exec' = 0))
       /\ ((~Halted /\ ~(Executing /\ InstrOp = 15 /\ InstrVector = 37)
               /\ ~Failed')
              => (running' /\ at' \in {"Step", "loopCont", "puts", "putsp"}
                  /\ argi' = argi))]_vars

\* A run that halted cleanly after three iterations.
C1_Witness == Halted /\ exec = 3 /\ at = "main" /\ InstrVector = 37

\* C2: COND is always exactly one of POSITIVE (1), ZERO (2), NEGATIVE (4).
C2_CondOneFlag == registers[RCOND] \in {1, 2, 4}

\* COND has become NEGATIVE after two instructions.
C2_Witness == registers[RCOND] = 4 /\ exec = 2

\* C3: after a successful ADD, AND, NOT, LD, LDI, LDR or LEA, COND is the
\* flag of the value now in the destination register.
C3_FlagsFollowDestination ==
    [][(Executing /\ InstrOp \in {1, 5, 9, 2, 10, 6, 14} /\ ~Failed')
          => registers'[RCOND] = SignFlag(registers'[InstrDst])]_vars

\* An LDI has loaded a word with bit 15 set and COND is NEGATIVE.
C3_Witness ==
    /\ at = "Step" /\ exec = 2 /\ InstrOp = 10
    /\ registers[InstrDst] >= 32768 /\ registers[RCOND] = 4

\* C4 as stated: after any instruction that writes a general register, COND
\* is the flag of the value written to it.
C4_Original ==
    [][(Executing /\ wrote' # {})
          => \A r \in wrote' : registers'[RCOND] = SignFlag(registers'[r])]_vars

\* The register JSR, JSRR and TRAP link the return address in.
LinkRegister == IF InstrOp \in {4, 15} THEN {7} ELSE {}

\* C4, amended: after any instruction that writes a general register other
\* than by the link R7 = PC of JSR, JSRR and TRAP, COND is the flag of the
\* value written to it.
C4_FlagsFollowWrites ==
    [][Executing
          => \A r \in wrote' \ LinkRegister :
                registers'[RCOND] = SignFlag(registers'[r])]_vars

\* GETC has read 'A' into R0 and COND has become POSITIVE.
C4_Witness ==
    /\ InstrOp = 15 /\ InstrVector = 32 /\ wrote = {0, 7} /\ at = "Step"
    /\ registers[0] = 65 /\ registers[RCOND] = 1

\* C5: BR, JMP, JSR/JSRR, ST, STI and STR leave COND as it was.
C5_CondFrame ==
    [][(Executing /\ InstrOp \in {0, 12, 4, 3, 11, 7})
          => registers'[RCOND] = registers[RCOND]]_vars

\* A JSR has linked a positive R7 and COND is still ZERO.
C5_Witness ==
    /\ InstrOp = 4 /\ at = "Step" /\ exec >= 1
    /\ registers[7] = StartPC + 2 /\ registers[RCOND] = 2

\* C6: an instruction whose opcode is RTI (8) or the reserved one (13) ends
\* the run FAILED with the unhandled-opcode error, whatever its other bits
\* and the machine state; all sixteen opcodes have a table entry, and no run
\* ever ends with the "unrecognized operation" error.
C6_UnhandledOpcode ==
    [][/\ ((Executing /\ InstrOp \in {8, 13})
              => (err' = "failed to handle opcode" /\ at' = "exit"))
       /\ (\A o \in 0 .. 15 : o \in DOMAIN opTable)
       /\ err' # "unrecognized operation"]_vars

\* The reserved opcode with other bits set has failed the run.
C6_Witness ==
    /\ err = "failed to handle opcode" /\ at = "exit"
    /\ InstrOp = 13 /\ instr % 4096 # 0

\* C7: a TRAP whose low 8 bits are none of 0x20-0x25 ends the run FAILED with
\* the unrecognized-trap error; of the state the fetch left, only R7 has
\* changed, to the PC, and no memory word, input or output has.
C7_UnrecognizedTrap ==
    [][(Executing /\ InstrOp = 15 /\ InstrVector \notin 32 .. 37)
          => /\ err' = "unrecognized trap"
             /\ at' = "exit"
             /\ registers'[7] = registers[RPC]
             /\ \A r \in (0 .. 9) \ {7} : registers'[r] = registers[r]
             /\ UNCHANGED <<memory, stdin, stdout, echo>>]_vars

\* TRAP x99 has failed the run, R7 holding the address after the TRAP.
C7_Witness ==
    /\ err = "unrecognized trap" /\ at = "exit"
    /\ InstrOp = 15 /\ InstrVector = 153
    /\ registers[7] = registers[RPC] /\ registers[1] # 0

\* The current run is the one of the scenario image.
ScenarioRun == args[argi] = ScenarioImage

\* C8: the run of AND R0,R0,#0 ; ADD R0,R0,#5 ; TRAP x25 never fails, always
\* has a step to take until it has halted, and halts after exactly three
\* iterations with R0 = 5 and COND = POSITIVE.
C8_Scenario ==
    ScenarioRun
       => /\ ~Failed
          /\ exec <= 3
          /\ (running => exec < 3 /\ ENABLED Next)
          /\ (Halted => (exec = 3 /\ registers[0] = 5 /\ registers[RCOND] = 1))

\* The scenario run has halted.
C8_Witness == ScenarioRun /\ Halted /\ exec = 3 /\ registers[0] = 5

\* C9: after JSR and after JSRR, R7 is the PC the fetch left, for every
\* offset and every base register, R7 included.
C9_LinkIsFetchPC ==
    [][(Executing /\ InstrOp = 4) => registers'[7] = registers[RPC]]_vars

\* JSRR with base R7 has run on R7 = 0x8001: R7 now holds the return address.
C9_Witness ==
    /\ at = "Step" /\ exec = 2 /\ InstrOp = 4
    /\ (instr \div 2048) % 2 = 0 /\ (instr \div 64) % 8 = 7
    /\ registers[7] = StartPC + 2

\* C10 as stated: with memory[PC + offset] = A and memory[A] = V before the
\* LDI, the destination register holds V after it and COND is the flag of V.
C10_Original ==
    [][(Executing /\ InstrOp = 10)
          => LET A == Load(memory, PCRelative)
                 V == Load(memory, A)
             IN  /\ registers'[InstrDst] = V
                 /\ registers'[RCOND] = SignFlag(V)]_vars

\* C10, amended: the same, provided that neither PC + offset nor A is the
\* keyboard status address 0xFE00 (a read of which takes a byte of input,
\* rewrites memory[0xFE00] before returning it, and can fail); the LDI then
\* succeeds.
C10_DoubleIndirection ==
    [][(Executing /\ InstrOp = 10)
          => LET A == Load(memory, PCRelative)
                 V == Load(memory, A)
             IN  (PCRelative # 65024 /\ A # 65024)
                    => /\ registers'[InstrDst] = V
                       /\ registers'[RCOND] = SignFlag(V)
                       /\ ~Failed']_vars

\* LDI R0,#2 has loaded 0x48 through the pointer at 0x3004.
C10_Witness ==
    /\ at = "Step" /\ exec = 2 /\ InstrOp = 10
    /\ instr % 512 = 2 /\ registers[InstrDst] = 72 /\ registers[RCOND] = 1

\* The word an iteration of the PUTS or PUTSP loop has read at addr.
WordRead == Load(memory', addr)

\* C11: each iteration of PUTS that reads a nonzero word writes exactly one
\* byte, the low byte of the word, whatever the word in 0x0001..0xFFFF, and
\* goes on to the next address; the iteration that reads the zero word writes
\* nothing and ends the trap, so no word after it is read.  (An iteration
\* whose write does not go through is left to C14.)
C11_PutsLowBytes ==
    [][(at = "puts" /\ ~Failed')
          => IF WordRead = 0
             THEN stdout' = stdout /\ at' # "puts"
             ELSE /\ stdout' \in {stdout, Append(stdout, WordRead % 256)}
                  /\ at' = "puts"
                  /\ addr' = (addr + 1) % MemoryMax]_vars

\* The address LDR and STR compute: base register plus the sign-extended low
\* 6 bits of the instruction, modulo 2^16.
BaseRelative ==
    (registers[(instr \div 64) % 8] + SignedField(instr % 64, 6)) % MemoryMax

\* Memory after the keyboard status register took the byte b.
KeyboardTook(b) ==
    \A x \in DOMAIN memory \cup DOMAIN memory' \cup {65024, 65026} :
       Load(memory', x) = IF x = 65024 THEN (IF b # 0 THEN 32768 ELSE 0)
                          ELSE IF x = 65026 /\ b # 0 THEN b
                          ELSE Load(memory, x)

\* What C12 says of a step whose one memory read is of address a and gives
\* got, the input not being exhausted.
ReadAsClaimed(a, got) ==
    IF a = 65024
    THEN stdin # <<>>
            => /\ stdin' = Tail(stdin)
               /\ KeyboardTook(Head(stdin))
               /\ got = Load(memory', 65024)
    ELSE got = Load(memory, a) /\ stdin' = stdin /\ memory' = memory

\* C12: a read of the keyboard status address 0xFE00 consumes one input byte
\* b, sets memory[0xFE00] = 0x8000 and memory[0xFE02] = b if b is nonzero and
\* memory[0xFE00] = 0 if b is 0, and returns memory[0xFE00]; a read of any
\* other address returns the stored word, consumes no input and changes no
\* memory word.  Stated of the steps that make one read: the fetch, LD, LDR.
C12_KeyboardRead ==
    [][/\ (at = "Step" => ReadAsClaimed(registers[RPC], instr'))
       /\ ((Executing /\ InstrOp = 2)
              => ReadAsClaimed(PCRelative, registers'[InstrDst]))
       /\ ((Executing /\ InstrOp = 6)
              => ReadAsClaimed(BaseRelative, registers'[InstrDst]))]_vars

\* The step about to be taken reads the input: a GETC or IN trap, a fetch at
\* the keyboard status address, a load or a pointer read whose address is the
\* keyboard status address, or a PUTS or PUTSP iteration reading there.
ReadsInput ==
    \/ at = "Step" /\ registers[RPC] = MRKBSR
    \/ Executing /\ InstrOp = 15 /\ InstrVector \in {32, 35}
    \/ Executing /\ InstrOp \in {2, 10, 11} /\ PCRelative = MRKBSR
    \/ Executing /\ InstrOp = 10 /\ Load(memory, PCRelative) = MRKBSR
    \/ Executing /\ InstrOp = 6 /\ BaseRelative = MRKBSR
    \/ at \in {"puts", "putsp"} /\ addr = MRKBSR

\* C13: when the input is exhausted at a GETC trap, an IN trap or a read of
\* the keyboard status address (a fetch at PC = 0xFE00 included), the run ends
\* FAILED with that error: nothing is fetched or executed after it, and no
\* value is stored in R0, in the destination register or in memory.
C13_InputExhausted ==
    [][(ReadsInput /\ stdin = <<>>)
          => /\ err' = "EOF"
             /\ at' = "exit"
             /\ exec' = exec
             /\ memory' = memory
             /\ \A r \in 0 .. 9 :
                   (registers'[r] # registers[r]) => (r = 7 /\ InstrOp = 15)]_vars

\* A run has failed on the fetch at the keyboard status address.
C13_Witness ==
    /\ err = "EOF"
    /\ at = "exit"
    /\ registers[RPC] = MRKBSR
    /\ InstrOp = 12

\* The step being taken is a write to the output that fails: OUT writing
\* nothing, PUTS printing nothing for a nonzero word, PUTSP writing nothing
\* of the bytes it has buffered at the terminating zero word.
OutputFails ==
    \/ Executing /\ InstrOp = 15 /\ InstrVector = 33 /\ stdout' = stdout
    \/ at = "puts" /\ WordRead # 0 /\ stdout' = stdout
    \/ at = "putsp" /\ WordRead = 0 /\ wbuf # <<>> /\ stdout' = stdout

\* C14: when the output fails during an OUT, PUTS or PUTSP trap the run ends
\* FAILED with the error: no output failure leaves the loop running.
C14_OutputFailure ==
    [][OutputFails => (Failed' /\ at' = "exit")]_vars

\* C15: at the first fetch of each image's run PC = 0x3000, COND = ZERO,
\* R0..R7 = 0 and memory is the supplied image, whatever the run before left
\* in its registers and memory.
C15_CleanStart ==
    (at = "Step" /\ exec = 0)
       => /\ registers[RPC] = 12288
          /\ registers[RCOND] = 2
          /\ \A r \in 0 .. 7 : registers[r] = 0
          /\ memory = args[argi]

\* The second run is at its first fetch; the first run decremented R1,
\* stored it in memory, read a key into R0 and halted.
C15_Witness ==
    /\ argi = 2
    /\ at = "Step"
    /\ exec = 0
    /\ args[1] = ImageOf(<<\h127F, \h3202, \hF020, HaltWord>>)

\* C16: each GETC trap consumes exactly one byte of the input: with input
\* left, GETC stores the first byte zero-extended in R0, sets COND to ZERO if
\* the byte is 0 and to POSITIVE otherwise, and leaves the rest of the input
\* for the next read, so that successive GETCs return successive bytes.
C16_GetcOneByte ==
    [][(Executing /\ InstrOp = 15 /\ InstrVector = 32 /\ stdin # <<>>)
          => /\ registers'[RR0] = Head(stdin)
             /\ registers'[RCOND] = (IF Head(stdin) = 0 THEN 2 ELSE 1)
             /\ stdin' = Tail(stdin)]_vars

\* Bit k of a word.
BitOf(x, k) == (x \div Pow2(k)) % 2

\* A bit of the mask of BR (bits 11-9: NEGATIVE, ZERO, POSITIVE) is set
\* together with the bit of that flag in COND.
BranchTaken ==
    \/ BitOf(instr, 11) = 1 /\ BitOf(registers[RCOND], 2) = 1
    \/ BitOf(instr, 10) = 1 /\ BitOf(registers[RCOND], 1) = 1
    \/ BitOf(instr, 9) = 1 /\ BitOf(registers[RCOND], 0) = 1

\* C17: BR sets PC to PC plus the sign-extended 9-bit offset (modulo 2^16) if
\* and only if a bit of its mask is set together with the matching flag of
\* COND (bit 11 NEGATIVE, bit 10 ZERO, bit 9 POSITIVE); with mask 000 it never
\* branches and with mask 111 it always does; it changes no other register
\* and no memory word.
C17_Branch ==
    [][(Executing /\ InstrOp = 0)
          => /\ registers'[RPC] = (IF BranchTaken THEN PCRelative
                                   ELSE registers[RPC])
             /\ ((instr \div 512) % 8 = 0 => registers'[RPC] = registers[RPC])
             /\ ((instr \div 512) % 8 = 7 => registers'[RPC] = PCRelative)
             /\ \A r \in 0 .. 9 : (r # RPC) => (registers'[r] = registers[r])
             /\ memory' = memory]_vars

\* BRn #1 has branched on NEGATIVE, set by the ADD R1,R1,#-1 before it.
C17_Witness ==
    /\ at = "Step"
    /\ instr = 2049
    /\ exec = 2
    /\ registers[RCOND] = 4
    /\ registers[RPC] = 12291

\* The image file handed to readImage: its origin, the number of whole words
\* after the header, the k-th of them (k from 0), the addresses they belong at.
FileOrigin == arg.file[1] * 256 + arg.file[2]
FileWords == (Len(arg.file) - 2) \div 2
FileWord(k) == arg.file[2 * k + 3] * 256 + arg.file[2 * k + 4]
FilePlaces == {a \in FileOrigin .. FileOrigin + FileWords - 1 : a <= 65535}

\* readImage has loaded a file made of a header and whole words.
Loaded_File ==
    /\ at = "returned"
    /\ arg.fn = "readImage"
    /\ Len(arg.file) >= 2
    /\ Len(arg.file) % 2 = 0
    /\ ret.err = "nil"

\* C18: the loader places the k-th big-endian word after the 2-byte origin
\* header at address origin + k for every k with origin + k <= 65535, address
\* 65535 included, and leaves every other memory word 0.
C18_LoaderPlacement ==
    Loaded_File
       => \A a \in DOMAIN ret.m \cup FilePlaces :
             Load(ret.m, a) = IF a \in FilePlaces THEN FileWord(a - FileOrigin)
                              ELSE 0

\* signExtend has returned; the field it was given: the low n bits of v.
Extended == at = "returned" /\ arg.fn = "signExtend"
Field == arg.v % Pow2(arg.n)

\* C19: for n in {5, 6, 9, 11} and a 16-bit v, signExtend(v & (2^n - 1), n) is
\* the field unchanged when its bit n-1 is clear and the field with bits
\* n..15 all set when its bit n-1 is set: all zeros gives 0, all ones 0xFFFF,
\* bit n-1 alone 0x10000 - 2^(n-1).
C19_SignExtend ==
    Extended
       => /\ arg.n \in {5, 6, 9, 11}
          /\ ret.val = IF BitOf(Field, arg.n - 1) = 0 THEN Field
                       ELSE Field + (65536 - Pow2(arg.n))
          /\ (Field = 0 => ret.val = 0)
          /\ (Field = Pow2(arg.n) - 1 => ret.val = 65535)
          /\ (Field = Pow2(arg.n - 1) => ret.val = 65536 - Pow2(arg.n - 1))

\* The 9-bit field 0x100 of the word 0xF300, only its sign bit set, has been
\* extended to 0xFF00.
C19_Witness ==
    /\ Extended
    /\ arg.n = 9
    /\ arg.v = 62208
    /\ ret.val = 65280

\* The step about to be taken reads the keyboard status address: as the
\* fetch address, as the operand address of LD, LDR or LDI, as the address of
\* the pointer of LDI or STI, or as the address of a word of PUTS or PUTSP.
ReadsKeyboard ==
    \/ at = "Step" /\ registers[RPC] = MRKBSR
    \/ Executing /\ InstrOp \in {2, 10, 11} /\ PCRelative = MRKBSR
    \/ Executing /\ InstrOp = 10 /\ Load(memory, PCRelative) = MRKBSR
    \/ Executing /\ InstrOp = 6 /\ BaseRelative = MRKBSR
    \/ at \in {"puts", "putsp"} /\ addr = MRKBSR

\* A ST, STI or STR is about to execute; its effective address.
Storing == Executing /\ InstrOp \in {3, 7, 11}
StoreAddress ==
    IF InstrOp = 3 THEN PCRelative
    ELSE IF InstrOp = 7 THEN BaseRelative
    ELSE Load(memory, PCRelative)

\* The word at the effective address becomes the source register's value,
\* every other memory word and every register stays as it is.
StoresOneWord ==
    /\ \A a \in DOMAIN memory \cup DOMAIN memory' \cup {StoreAddress} :
          Load(memory', a) = IF a = StoreAddress THEN registers[InstrDst]
                             ELSE Load(memory, a)
    /\ registers' = registers

\* C20 as stated: a step of a run that reads no keyboard status address
\* leaves memory unchanged unless it executes ST, STI or STR, and every ST,
\* STI or STR changes the one word at its effective address and no register.
C20_Original ==
    [][(at # "main")
          => IF Storing THEN StoresOneWord
             ELSE (~ReadsKeyboard => memory' = memory)]_vars

\* C20, amended: a step of a run that reads no keyboard status address leaves
\* memory unchanged unless it executes ST, STI or STR, and then it changes the
\* one word at its effective address to the source register's value and no
\* register (an STI whose pointer is read at 0xFE00 is not such a step).
C20_MemoryFrame ==
    [][(at # "main" /\ ~ReadsKeyboard)
          => IF Storing THEN StoresOneWord ELSE memory' = memory]_vars

\* STR R7,R1,#-1 has stored R7 = 0x8001 at 0xFFFF, the address R1 - 1 with
\* R1 = 0, modulo 2^16.
C20_Witness ==
    /\ at = "Step"
    /\ instr = \h7E7F
    /\ exec = 2
    /\ registers[RR7] = 32769
    /\ Load(memory, 65535) = 32769

=============================================================================
